---------------------------- MODULE Spec2Model ----------------------------
(***************************************************************************)
(* BatchOCR (src/src/batchocr/batchocr.py): the page-searchability         *)
(* classifier analyze_pdf, the conversion loop of main and the OCR process *)
(* orchestrator convert_to_searchable_pdf, with the OCR engine (FineCmd)   *)
(* and its UI helper (Sprint.exe) as environment processes.                *)
(*                                                                         *)
(* Python semantics the model relies on:                                   *)
(*  - fatal_error ends in sys.exit(1), which raises SystemExit.  SystemExit*)
(*    derives from BaseException, not from Exception, so the handler       *)
(*    `except Exception` of convert_to_searchable_pdf does not run for it. *)
(*  - leaving `with subprocess.Popen(...)`, normally or by an exception    *)
(*    other than KeyboardInterrupt, runs Popen.__exit__, which calls       *)
(*    self.wait() with no timeout.                                         *)
(*  - psutil.Process.wait(timeout) raises psutil.TimeoutExpired, a         *)
(*    subclass of psutil.Error and so of Exception; it is not a            *)
(*    subprocess.TimeoutExpired.                                           *)
(*  - an exception that leaves main ends the interpreter with exit code 1. *)
(*                                                                         *)
(* Files are paths of one directory, told apart by name: the output path   *)
(* and the temporary output path of an input file are derived from its     *)
(* stem and may be the paths of other input files.  file_path_generator is *)
(* a generator: a path is tested with is_file() when the loop reaches it.  *)
(***************************************************************************)
EXTENDS Integers, Sequences, FiniteSets, TLC

(***************************************************************************)
(* Bounds of the model.                                                    *)
(***************************************************************************)
\* Largest number of input files of a run.
MaxFiles == 2
\* The rename-attempt counter saturates here (the retry loop itself is unbounded).
MaxMoves == 2
\* Largest value of --unsearchable tried.
MaxUnsearchable == 1
\* Largest number of pages of a document of the classifier runs.
MaxDocPages == 2
\* Largest value of --words tried in the classifier runs.
MaxWords == 2
\* Largest value of --pages tried in the classifier runs.
MaxSample == 2

(***************************************************************************)
(* Program constants.                                                      *)
(***************************************************************************)
\* fine.wait(timeout=10) and p.wait(timeout=10), in seconds.
TIMEOUT == 10
\* argparse defaults of --pages, --text, --image, --words.
DefaultPages == 10
DefaultText == 1
DefaultImage == 100
DefaultWords == 3

\* fine.poll() of a process that has not exited.
None == -1

Min(a, b) == IF a < b THEN a ELSE b

(***************************************************************************)
(* Pages.  A page is what analyze_pdf reads of it: whether get_text() has  *)
(* non-blank text, the number of images and of drawings, the page area     *)
(* abs(page.rect), and the blocks of get_text("dict"): type (0 text,       *)
(* 1 image, other unknown), bounding-box area, and for a text block the    *)
(* number of matches of \w{5,20} in its joined span text.                  *)
(***************************************************************************)
Block(type, area, words) == [type |-> type, area |-> area, words |-> words]

Page(text, images, drawings, area, blocks) ==
    [text |-> text, images |-> images, drawings |-> drawings,
     area |-> area, blocks |-> blocks]

\* The pages of the sample documents (page area 100, so areas are percents).
BlankPage == Page(FALSE, 0, 0, 100, << >>)
TextPage == Page(TRUE, 0, 0, 100, << Block(0, 20, 5) >>)
ImagePage == Page(FALSE, 1, 0, 100, << Block(1, 90, 0) >>)

\* More pages for the classifier runs: a text block of one word beside an
\* image; a drawing and no block; text and image areas larger than the page
\* beside a block of unknown type.
FewWordsPage == Page(TRUE, 1, 0, 100, << Block(0, 20, 1), Block(1, 40, 0) >>)
DrawingPage == Page(FALSE, 0, 1, 100, << >>)
OverflowPage ==
    Page(TRUE, 1, 0, 100, << Block(0, 120, 3), Block(1, 110, 0), Block(2, 150, 0) >>)

ClassifyPages ==
    { BlankPage, TextPage, ImagePage, FewWordsPage, DrawingPage, OverflowPage }

\* The values of --text and of --image of the classifier runs.
TextPercents == { DefaultText, 20 }
ImagePercents == { 50, DefaultImage, 150 }

\* Documents of the batch runs: no page (no Searchable, no Unsearchable
\* page) and the 3-page scenario Blank/Searchable/Unsearchable.
SampleDocs ==
    { << >>,
      << BlankPage, TextPage, ImagePage >> }

(***************************************************************************)
(* analyze_pdf                                                             *)
(***************************************************************************)
\* Lines 326-330: the page has no text, no image and no drawing.
IsBlank(page) == ~(page.text \/ page.images > 0 \/ page.drawings > 0)

\* Lines 355-366: words are appended one match at a time and the block's
\* area is added at the moment len(words) == ARGS.words, so it is added iff
\* the count passes through ARGS.words, i.e. 1 <= ARGS.words <= matches.
BlockCounts(block, args) == 1 <= args.words /\ args.words <= block.words

RECURSIVE text_area(_, _, _)
\* Lines 339, 347-366: sum of the areas of the text blocks that count.
text_area(blocks, k, args) ==
    IF k > Len(blocks) THEN 0
    ELSE (IF blocks[k].type = 0 /\ BlockCounts(blocks[k], args)
          THEN blocks[k].area ELSE 0) + text_area(blocks, k + 1, args)

RECURSIVE img_area(_, _)
\* Lines 337, 368-369: sum of the areas of the image blocks.
img_area(blocks, k) ==
    IF k > Len(blocks) THEN 0
    ELSE (IF blocks[k].type = 1 THEN blocks[k].area ELSE 0)
         + img_area(blocks, k + 1)

\* IsUnsearchable with < for <= in the text test.
IsUnsearchable_lt(page, args) ==
    \/ text_area(page.blocks, 1, args) * 100 < args.text * page.area
    \/ img_area(page.blocks, 1) * 100 > args.image * page.area

\* IsUnsearchable with < for > in the image test.
IsUnsearchable_img_lt(page, args) ==
    \/ text_area(page.blocks, 1, args) * 100 <= args.text * page.area
    \/ img_area(page.blocks, 1) * 100 < args.image * page.area

\* Lines 374-396: text_pct <= ARGS.text or img_pct > ARGS.image, with
\* pct = area / page_area * 100 written without the division (page_area > 0).
IsUnsearchable(page, args) ==
    \/ text_area(page.blocks, 1, args) * 100 <= args.text * page.area
    \/ img_area(page.blocks, 1) * 100 > args.image * page.area

\* Lines 326-396: the label of one page.
PageLabel(page, args) ==
    IF IsBlank(page) THEN "Blank"
    ELSE IF IsUnsearchable(page, args) THEN "Unsearchable"
    ELSE "Searchable"

\* pdf_type = defaultdict(list): every key reads as a list.
EmptyPdfType == [k \in {"Blank", "Unsearchable", "Searchable"} |-> << >>]

RECURSIVE AnalyzeFrom_nobreak(_, _, _, _)
\* AnalyzeFrom without the break at pagenum > ARGS.pages.
AnalyzeFrom_nobreak(document, pagenum, pdf_type, args) ==
    IF pagenum > Len(document) THEN pdf_type
    ELSE LET label == PageLabel(document[pagenum], args)
         IN AnalyzeFrom_nobreak(document, pagenum + 1,
                [pdf_type EXCEPT ![label] = Append(@, pagenum)], args)

RECURSIVE AnalyzeFrom(_, _, _, _)
\* Lines 321-396: the loop over enumerate(document, 1), with the break at
\* pagenum > ARGS.pages.
AnalyzeFrom(document, pagenum, pdf_type, args) ==
    IF pagenum > Len(document) \/ pagenum > args.pages THEN pdf_type
    ELSE LET label == PageLabel(document[pagenum], args)
         IN AnalyzeFrom(document, pagenum + 1,
                [pdf_type EXCEPT ![label] = Append(@, pagenum)], args)

analyze_pdf(document, args) == AnalyzeFrom(document, 1, EmptyPdfType, args)

\* NotSearchable with >= for >.
NotSearchable_ge(pdf_type, args) ==
    \/ Len(pdf_type["Searchable"]) = 0
    \/ Len(pdf_type["Unsearchable"]) >= args.unsearchable

\* Lines 630-631: the condition under which main converts without --force.
NotSearchable(pdf_type, args) ==
    \/ Len(pdf_type["Searchable"]) = 0
    \/ Len(pdf_type["Unsearchable"]) > args.unsearchable

(***************************************************************************)
(* State of a run in conversion mode or in analyze mode.                   *)
(***************************************************************************)
VARIABLES
    ARGS,              \* parsed command line (read-only after Init)
    infiles,           \* the files file_path_generator yields, in order
    idx,               \* position of main's for loop in infiles
    pc,                \* the statement the program is at
    fs,                \* the paths that exist
    fine,              \* the FineCmd process: "none", "alive", "exited"
    exit_status,       \* what fine.poll() returns
    locked,            \* FineCmd still holds temp_pdf open
    terminated,        \* fine.terminate() was called
    Sprint,            \* the Sprint.exe helper: "none", "running", "exited"
    sprint_terminated, \* p.terminate() was called
    waited,            \* seconds spent in the current wait(timeout=10)
    moves,             \* temp_pdf.rename attempts of this job (saturating)
    raised,            \* the exception in flight, "none" if none
    failure,           \* why the job failed, "" if it has not
    exit_code,         \* exit code of the run, None while it runs
    outcome,           \* per input file: "", "Created", "Analyzed" or the skip reason
    analyzed,          \* the input files analyze_pdf was called on
    pdf_type,          \* what the last call of analyze_pdf returned
    tiff_frames,       \* the frames the last pdf_to_multipage_tiff saved
    prior              \* how the earlier run on the same files ended, if any

vars == << ARGS, infiles, idx, pc, fs, fine, exit_status, locked, terminated,
           Sprint, sprint_terminated, waited, moves, raised, failure,
           exit_code, outcome, analyzed, pdf_type, tiff_frames, prior >>

\* The variables of the job and of the two external processes.
job_vars == << fine, exit_status, locked, terminated, Sprint,
               sprint_terminated, waited, moves, raised, failure >>

\* The variables main owns.
main_vars == << ARGS, infiles, idx, outcome, analyzed, exit_code, pdf_type,
                tiff_frames, prior >>

\* No earlier run.
NoPrior == [failure |-> "", idx |-> 0]

\* A file name: the parts of its stem and its extension.
Name(stem, ext) == [stem |-> stem, ext |-> ext]

\* str.lower on the extensions that occur.
Lower(ext) == IF ext = ".PDF" THEN ".pdf" ELSE ext

\* IsConvertedName with the suffix compared in lower case.
IsConvertedName_lowercase(name) ==
    /\ Len(name.stem) >= 1
    /\ name.stem[Len(name.stem)] = "_ocr_"
    /\ Lower(name.ext) = ".pdf"

\* Line 616: re.fullmatch(r'.*(?-i:_OCR_)\.pdf', name, re.IGNORECASE): the
\* stem ends in _OCR_, in this case exactly, and the extension is .pdf in
\* any case.
IsConvertedName(name) ==
    /\ Len(name.stem) >= 1
    /\ name.stem[Len(name.stem)] = "_OCR_"
    /\ Lower(name.ext) = ".pdf"

\* An input file: its name, whether its derived output path exists when the
\* run starts, and its pages.
InputFile(name, output, document) ==
    [name |-> name, output |-> output, document |-> document]

\* The 3-page scenario document of the batch runs.
ScenarioDoc == << BlankPage, TextPage, ImagePage >>

\* The stem of the file that holds a sample document.
StemOf(document) == IF document = << >> THEN "empty" ELSE "report"

\* The input files of the batch runs, all of one directory: report_OCR_.pdf,
\* report_OCR_TMP_.pdf, report_ocr_.pdf whose output exists already, and
\* empty.pdf and report.pdf, one for each sample document.  A file
\* may be given twice.
InputFiles ==
    { InputFile(Name(<< "report", "_OCR_" >>, ".pdf"), FALSE, << >>),
      InputFile(Name(<< "report", "_OCR_", "TMP_" >>, ".pdf"), FALSE, ScenarioDoc),
      InputFile(Name(<< "report", "_ocr_" >>, ".pdf"), TRUE, ScenarioDoc) }
    \cup { InputFile(Name(<< StemOf(d) >>, ".pdf"), FALSE, d) : d \in SampleDocs }

\* Paths.  The yielded path; line 620: ocr_pdf, the stem with _OCR_ added;
\* line 447: temp_pdf, the stem of ocr_pdf with TMP_ added; line 637: the
\* tiff file, a fresh name in the directory of temporary files.
pdf_file(i) == infiles[i].name
ocr_pdf(i) == Name(Append(infiles[i].name.stem, "_OCR_"), ".pdf")
temp_pdf(i) == Name(infiles[i].name.stem \o << "_OCR_", "TMP_" >>, ".pdf")
tiff_file(i) == Name(<< "tmp" >>, ".tiff")

\* The state in which main enters its loops, given ARGS and infiles.
Start ==
    /\ idx = 1
    /\ pc = "main"
    /\ fs = { pdf_file(i) : i \in 1..Len(infiles) }
            \cup { ocr_pdf(i) : i \in { j \in 1..Len(infiles) : infiles[j].output } }
    /\ fine = "none"
    /\ exit_status = None
    /\ locked = FALSE
    /\ terminated = FALSE
    /\ Sprint = "none"
    /\ sprint_terminated = FALSE
    /\ waited = 0
    /\ moves = 0
    /\ raised = "none"
    /\ failure = ""
    /\ exit_code = None
    /\ outcome = [i \in 1..Len(infiles) |-> ""]
    /\ analyzed = {}
    /\ pdf_type = EmptyPdfType
    /\ tiff_frames = 0
    /\ prior = NoPrior

Init ==
    /\ ARGS \in [analyze : BOOLEAN, force : BOOLEAN,
                 unsearchable : 0..MaxUnsearchable,
                 pages : {DefaultPages}, text : {DefaultText},
                 image : {DefaultImage}, words : {DefaultWords}]
    /\ infiles \in UNION { [1..n -> InputFiles] : n \in 1..MaxFiles }
    /\ Start

(***************************************************************************)
(* The states of the orchestrator, as the design names them.               *)
(***************************************************************************)
Job ==
    IF failure # "" THEN "Failed"
    ELSE CASE pc = "Popen" -> "Launching"
           [] pc \in {"exists", "poll"} -> "AwaitingOutput"
           [] pc \in {"rename", "rename_poll"} -> "InstallingOutput"
           [] pc \in {"terminate", "wait", "Popen__exit__"} -> "Terminating"
           [] pc \in {"process_iter", "p_terminate", "p_wait"} -> "HelperCleanup"
           [] pc = "Done" -> "Done"
           [] OTHER -> "Idle"

(***************************************************************************)
(* main, lines 613-650                                                     *)
(***************************************************************************)
\* Lines 279-282: a path is yielded only if path.is_file() holds when the
\* generator reaches it; main never sees a path that is no file by then.
NotAFile ==
    /\ pc = "main" /\ idx <= Len(infiles)
    /\ pdf_file(idx) \notin fs
    /\ outcome' = [outcome EXCEPT ![idx] = "NotYielded"]
    /\ idx' = idx + 1
    /\ UNCHANGED << prior, ARGS, infiles, pc, fs, job_vars, exit_code, analyzed,
                    pdf_type, tiff_frames >>

\* Lines 616-618: a file named *_OCR_.pdf is skipped.
SkipConverted ==
    /\ pc = "main" /\ idx <= Len(infiles) /\ ~ARGS.analyze
    /\ pdf_file(idx) \in fs
    /\ IsConvertedName(infiles[idx].name)
    /\ outcome' = [outcome EXCEPT ![idx] = "SkippedConverted"]
    /\ idx' = idx + 1
    /\ UNCHANGED << prior, ARGS, infiles, pc, fs, job_vars, exit_code, analyzed,
                    pdf_type, tiff_frames >>

\* Lines 620-626, without --force: the existing output makes main skip.
SkipExisting ==
    /\ pc = "main" /\ idx <= Len(infiles) /\ ~ARGS.analyze
    /\ pdf_file(idx) \in fs
    /\ ~IsConvertedName(infiles[idx].name)
    /\ ocr_pdf(idx) \in fs /\ ~ARGS.force
    /\ outcome' = [outcome EXCEPT ![idx] = "SkippedExisting"]
    /\ idx' = idx + 1
    /\ UNCHANGED << prior, ARGS, infiles, pc, fs, job_vars, exit_code, analyzed,
                    pdf_type, tiff_frames >>

\* ForceConvert without the unlink of line 623.
ForceConvert_keep ==
    /\ pc = "main" /\ idx <= Len(infiles) /\ ~ARGS.analyze
    /\ pdf_file(idx) \in fs
    /\ ~IsConvertedName(infiles[idx].name)
    /\ ARGS.force
    /\ fs' = fs \cup {tiff_file(idx)}
    /\ tiff_frames' = 0
    /\ pc' = "pdf_to_multipage_tiff"
    /\ UNCHANGED << prior, ARGS, infiles, idx, outcome, analyzed, exit_code, pdf_type,
                    job_vars >>

\* Lines 620-635 with --force: the stale output is unlinked and the file is
\* converted without a call of analyze_pdf; line 637 creates the tiff file,
\* empty.
ForceConvert ==
    /\ pc = "main" /\ idx <= Len(infiles) /\ ~ARGS.analyze
    /\ pdf_file(idx) \in fs
    /\ ~IsConvertedName(infiles[idx].name)
    /\ ARGS.force
    /\ fs' = (fs \ {ocr_pdf(idx)}) \cup {tiff_file(idx)}
    /\ tiff_frames' = 0
    /\ pc' = "pdf_to_multipage_tiff"
    /\ UNCHANGED << prior, ARGS, infiles, idx, outcome, analyzed, exit_code, pdf_type,
                    job_vars >>

\* Lines 628-637 without --force and without an existing output: the
\* verdict of analyze_pdf decides between conversion and the skip.
AnalyzeAndDecide ==
    /\ pc = "main" /\ idx <= Len(infiles) /\ ~ARGS.analyze
    /\ pdf_file(idx) \in fs
    /\ ~IsConvertedName(infiles[idx].name)
    /\ ocr_pdf(idx) \notin fs /\ ~ARGS.force
    /\ analyzed' = analyzed \cup {idx}
    /\ pdf_type' = analyze_pdf(infiles[idx].document, ARGS)
    /\ IF NotSearchable(pdf_type', ARGS)
       THEN /\ fs' = fs \cup {tiff_file(idx)}
            /\ tiff_frames' = 0
            /\ pc' = "pdf_to_multipage_tiff"
            /\ UNCHANGED << idx, outcome >>
       ELSE /\ outcome' = [outcome EXCEPT ![idx] = "SkippedSearchable"]
            /\ idx' = idx + 1
            /\ UNCHANGED << pc, fs, tiff_frames >>
    /\ UNCHANGED << prior, ARGS, infiles, exit_code, job_vars >>

\* The for loop is exhausted (line 611 or the end of main): main returns and
\* the run ends with code 0.
MainReturn ==
    /\ pc = "main" /\ idx > Len(infiles)
    /\ pc' = "exit"
    /\ exit_code' = 0
    /\ UNCHANGED << prior, ARGS, infiles, idx, fs, job_vars, outcome, analyzed,
                    pdf_type, tiff_frames >>

\* Lines 607-611, analyze mode: each file is analyzed and reported; nothing
\* else is done with it.
AnalyzeOnly ==
    /\ pc = "main" /\ idx <= Len(infiles) /\ ARGS.analyze
    /\ pdf_file(idx) \in fs
    /\ analyzed' = analyzed \cup {idx}
    /\ pdf_type' = analyze_pdf(infiles[idx].document, ARGS)
    /\ outcome' = [outcome EXCEPT ![idx] = "Analyzed"]
    /\ idx' = idx + 1
    /\ UNCHANGED << prior, ARGS, infiles, pc, fs, job_vars, exit_code, tiff_frames >>

\* Lines 641, 403-434: every page is rendered; without a page the function
\* returns before the save, otherwise all the pages are saved as frames of
\* the tiff file.  Line 645 follows in both cases.
pdf_to_multipage_tiff ==
    /\ pc = "pdf_to_multipage_tiff"
    /\ LET images == infiles[idx].document
       IN tiff_frames' = IF images = << >> THEN tiff_frames ELSE Len(images)
    /\ pc' = "Popen"
    /\ UNCHANGED << prior, ARGS, infiles, idx, outcome, analyzed, exit_code, pdf_type,
                    fs, job_vars >>

\* Created with the report made once the output is installed, before the
\* engine is terminated.
Created_before_Done ==
    /\ pc = "terminate"
    /\ outcome' = [outcome EXCEPT ![idx] = "Created"]
    /\ pc' = "copy_creation_time"
    /\ UNCHANGED << prior, ARGS, infiles, idx, exit_code, analyzed, pdf_type,
                    tiff_frames, fs, job_vars >>

\* Line 646, after convert_to_searchable_pdf has returned: the outcome is
\* reported.
Created ==
    /\ pc = "Done"
    /\ outcome' = [outcome EXCEPT ![idx] = "Created"]
    /\ pc' = "copy_creation_time"
    /\ UNCHANGED << prior, ARGS, infiles, idx, exit_code, analyzed, pdf_type,
                    tiff_frames, fs, job_vars >>

\* Lines 649-650 and the end of the with block of line 637: the creation
\* time is copied to the output, the tiff file is deleted, and the loop goes
\* on to the next file.
copy_creation_time ==
    /\ pc = "copy_creation_time"
    /\ fs' = fs \ {tiff_file(idx)}
    /\ idx' = idx + 1
    /\ pc' = "main"
    /\ exit_status' = None /\ terminated' = FALSE
    /\ sprint_terminated' = FALSE /\ waited' = 0 /\ moves' = 0
    /\ UNCHANGED << prior, ARGS, infiles, exit_code, outcome, analyzed, pdf_type,
                    tiff_frames, fine, locked, Sprint, raised, failure >>

(***************************************************************************)
(* convert_to_searchable_pdf, lines 437-508                                *)
(***************************************************************************)
\* Lines 456, 470: fine.poll() is None while the process runs and its exit
\* status, zero or not, once it has exited.
poll == IF fine = "exited" THEN exit_status ELSE None

\* Lines 125-130 called inside the with block of line 452: the message is
\* logged and sys.exit(1) raises SystemExit, which leaves the with block.
fatal_error(msg) ==
    /\ failure' = msg
    /\ raised' = "SystemExit"
    /\ pc' = "Popen__exit__"

\* Line 505: `except Exception` handles the exceptions that derive from
\* Exception; SystemExit does not.
IsException(exc) == exc # "SystemExit"

\* Propagate with the handler unlinking output_pdf instead of temp_pdf.
Propagate_unlink_output(exc) ==
    /\ fs' = (IF IsException(exc) THEN fs \ {ocr_pdf(idx)} ELSE fs)
             \ {tiff_file(idx)}
    /\ pc' = "exit"
    /\ exit_code' = 1

\* Lines 505-508 and what follows: the handler, if it matches, unlinks
\* temp_pdf and re-raises; the exception then leaves the with block of
\* line 637 (the tiff file is deleted) and main, and the run ends with 1.
Propagate(exc) ==
    /\ fs' = (IF IsException(exc) THEN fs \ {temp_pdf(idx)} ELSE fs)
             \ {tiff_file(idx)}
    /\ pc' = "exit"
    /\ exit_code' = 1

\* Line 452: the engine is started.
Popen ==
    /\ pc = "Popen"
    /\ fine' = "alive"
    /\ exit_status' = None
    /\ locked' = FALSE
    /\ terminated' = FALSE
    /\ sprint_terminated' = FALSE
    /\ waited' = 0
    /\ moves' = 0
    /\ pc' = "exists"
    /\ UNCHANGED << main_vars, fs, Sprint, raised, failure >>

\* exists testing the final path instead of the temporary one.
exists_output_pdf ==
    /\ pc = "exists"
    /\ pc' = IF ocr_pdf(idx) \in fs THEN "rename" ELSE "poll"
    /\ UNCHANGED << main_vars, fs, job_vars >>

\* Line 455: the loop condition `not temp_pdf.exists()`.
exists ==
    /\ pc = "exists"
    /\ pc' = IF temp_pdf(idx) \in fs THEN "rename" ELSE "poll"
    /\ UNCHANGED << main_vars, fs, job_vars >>

\* await_poll with `if exit_status:` for `is not None`: status 0 passes.
await_poll_truthy ==
    /\ pc = "poll"
    /\ IF poll # None /\ poll # 0
       THEN fatal_error("exited")
       ELSE pc' = "exists" /\ UNCHANGED << raised, failure >>
    /\ UNCHANGED << main_vars, fs, fine, exit_status, locked, terminated,
                    Sprint, sprint_terminated, waited, moves >>

\* Lines 456-459: an exited engine is fatal, otherwise sleep and loop.
await_poll ==
    /\ pc = "poll"
    /\ IF poll # None
       THEN fatal_error("exited")
       ELSE pc' = "exists" /\ UNCHANGED << raised, failure >>
    /\ UNCHANGED << main_vars, fs, fine, exit_status, locked, terminated,
                    Sprint, sprint_terminated, waited, moves >>

\* Line 466: Path.rename raises PermissionError while the engine holds the
\* file open, and FileExistsError (an OSError) on Windows when the target
\* exists.
RenameFails == locked \/ ocr_pdf(idx) \in fs

\* rename that copies: the temporary file stays.
rename_copy ==
    /\ pc = "rename"
    /\ moves' = Min(moves + 1, MaxMoves)
    /\ IF RenameFails
       THEN pc' = "rename_poll" /\ UNCHANGED fs
       ELSE /\ fs' = fs \cup {ocr_pdf(idx)}
            /\ pc' = "terminate"
    /\ UNCHANGED << main_vars, fine, exit_status, locked, terminated, Sprint,
                    sprint_terminated, waited, raised, failure >>

\* rename that polls the engine first and gives up if it has exited.
rename_poll_first ==
    /\ pc = "rename"
    /\ moves' = Min(moves + 1, MaxMoves)
    /\ IF poll # None
       THEN fatal_error("exited") /\ UNCHANGED fs
       ELSE /\ UNCHANGED << raised, failure >>
            /\ IF RenameFails
               THEN pc' = "rename_poll" /\ UNCHANGED fs
               ELSE /\ fs' = (fs \ {temp_pdf(idx)}) \cup {ocr_pdf(idx)}
                    /\ pc' = "terminate"
    /\ UNCHANGED << main_vars, fine, exit_status, locked, terminated, Sprint,
                    sprint_terminated, waited >>

\* Lines 464-469: one attempt to move temp_pdf to output_pdf.
rename ==
    /\ pc = "rename"
    /\ moves' = Min(moves + 1, MaxMoves)
    /\ IF RenameFails
       THEN pc' = "rename_poll" /\ UNCHANGED fs
       ELSE /\ fs' = (fs \ {temp_pdf(idx)}) \cup {ocr_pdf(idx)}
            /\ pc' = "terminate"
    /\ UNCHANGED << main_vars, fine, exit_status, locked, terminated, Sprint,
                    sprint_terminated, waited, raised, failure >>

\* rename_poll without the retry: a failed attempt is fatal at once.
rename_poll_no_retry ==
    /\ pc = "rename_poll"
    /\ fatal_error("exited")
    /\ UNCHANGED << main_vars, fs, fine, exit_status, locked, terminated,
                    Sprint, sprint_terminated, waited, moves >>

\* Lines 470-472: after a failed attempt an exited engine is fatal,
\* otherwise sleep and try again.
rename_poll ==
    /\ pc = "rename_poll"
    /\ IF poll # None
       THEN fatal_error("exited")
       ELSE pc' = "rename" /\ UNCHANGED << raised, failure >>
    /\ UNCHANGED << main_vars, fs, fine, exit_status, locked, terminated,
                    Sprint, sprint_terminated, waited, moves >>

\* Line 475: fine.terminate().
terminate ==
    /\ pc = "terminate"
    /\ terminated' = TRUE
    /\ waited' = 0
    /\ pc' = "wait"
    /\ UNCHANGED << main_vars, fs, fine, exit_status, locked, Sprint,
                    sprint_terminated, moves, raised, failure >>

\* Lines 478-479: fine.wait returns once the engine has exited.
wait_return ==
    /\ pc = "wait"
    /\ fine = "exited"
    /\ waited' = 0
    /\ pc' = "Popen__exit__"
    /\ UNCHANGED << main_vars, fs, fine, exit_status, locked, terminated,
                    Sprint, sprint_terminated, moves, raised, failure >>

\* Line 478: a second of fine.wait(timeout=10) passes.
wait_tick ==
    /\ pc = "wait"
    /\ fine = "alive"
    /\ waited < TIMEOUT
    /\ waited' = waited + 1
    /\ UNCHANGED << main_vars, pc, fs, fine, exit_status, locked, terminated,
                    Sprint, sprint_terminated, moves, raised, failure >>

\* wait_timeout with the timeout swallowed: the function returns with the
\* engine still running.
wait_timeout_swallowed ==
    /\ pc = "wait"
    /\ fine = "alive"
    /\ waited = TIMEOUT
    /\ pc' = "Done"
    /\ UNCHANGED << main_vars, fs, job_vars >>

\* Lines 480-481: subprocess.TimeoutExpired after 10 seconds.
wait_timeout ==
    /\ pc = "wait"
    /\ fine = "alive"
    /\ waited = TIMEOUT
    /\ fatal_error("FineCmdTimeout")
    /\ UNCHANGED << main_vars, fs, fine, exit_status, locked, terminated,
                    Sprint, sprint_terminated, waited, moves >>

\* The end of the with block of line 452, reached normally or by the
\* SystemExit of fatal_error: Popen.__exit__ waits, without a timeout, for
\* the engine to exit.  Then either line 483 follows or the exception goes on.
Popen__exit__ ==
    /\ pc = "Popen__exit__"
    /\ fine = "exited"
    /\ IF raised = "none"
       THEN pc' = "process_iter" /\ UNCHANGED << fs, exit_code >>
       ELSE Propagate(raised)
    /\ UNCHANGED << prior, ARGS, infiles, idx, outcome, analyzed, pdf_type,
                    tiff_frames, job_vars >>

\* Lines 486-492: the scan for Sprint.exe; without one the function returns.
process_iter ==
    /\ pc = "process_iter"
    /\ pc' = IF Sprint = "running" THEN "p_terminate" ELSE "Done"
    /\ UNCHANGED << main_vars, fs, job_vars >>

\* Line 495: p.terminate().
p_terminate ==
    /\ pc = "p_terminate"
    /\ sprint_terminated' = TRUE
    /\ waited' = 0
    /\ pc' = "p_wait"
    /\ UNCHANGED << main_vars, fs, fine, exit_status, locked, terminated,
                    Sprint, moves, raised, failure >>

\* Lines 499, 503: p.wait returns once Sprint.exe has exited.
p_wait_return ==
    /\ pc = "p_wait"
    /\ Sprint = "exited"
    /\ waited' = 0
    /\ pc' = "Done"
    /\ UNCHANGED << main_vars, fs, fine, exit_status, locked, terminated,
                    Sprint, sprint_terminated, moves, raised, failure >>

\* Line 499: a second of p.wait(timeout=10) passes.
p_wait_tick ==
    /\ pc = "p_wait"
    /\ Sprint = "running"
    /\ waited < TIMEOUT
    /\ waited' = waited + 1
    /\ UNCHANGED << main_vars, pc, fs, fine, exit_status, locked, terminated,
                    Sprint, sprint_terminated, moves, raised, failure >>

\* Line 499: p is a psutil.Process, whose wait raises psutil.TimeoutExpired.
p_wait_exception == "psutil.TimeoutExpired"

\* Lines 497-508: after 10 seconds p.wait raises.  The clause of line 500
\* handles subprocess.TimeoutExpired with fatal_error (outside the with
\* block of line 452, so SystemExit goes straight on); any other exception
\* reaches the handler of line 505.
p_wait_timeout ==
    /\ pc = "p_wait"
    /\ Sprint = "running"
    /\ waited = TIMEOUT
    /\ failure' = "SprintTimeout"
    /\ raised' = IF p_wait_exception = "subprocess.TimeoutExpired"
                 THEN "SystemExit" ELSE p_wait_exception
    /\ Propagate(raised')
    /\ UNCHANGED << prior, ARGS, infiles, idx, outcome, analyzed, pdf_type,
                    tiff_frames, fine, exit_status, locked, terminated,
                    Sprint, sprint_terminated, waited, moves >>

(***************************************************************************)
(* The environment: FineCmd.exe and Sprint.exe                             *)
(***************************************************************************)
\* The engine writes its output to the /out path and keeps it open.
fine_creates_output ==
    /\ fine = "alive"
    /\ temp_pdf(idx) \notin fs /\ ocr_pdf(idx) \notin fs
    /\ fs' = fs \cup {temp_pdf(idx)}
    /\ locked' = TRUE
    /\ UNCHANGED << main_vars, pc, fine, exit_status, terminated, Sprint,
                    sprint_terminated, waited, moves, raised, failure >>

\* The engine closes its output file.
fine_closes_output ==
    /\ fine = "alive"
    /\ locked
    /\ locked' = FALSE
    /\ UNCHANGED << main_vars, pc, fs, fine, exit_status, terminated, Sprint,
                    sprint_terminated, waited, moves, raised, failure >>

\* The engine exits, on its own or after terminate, with some status; its
\* open files are closed.
fine_exits ==
    /\ fine = "alive"
    /\ fine' = "exited"
    /\ \E status \in {0, 1} : exit_status' = status
    /\ locked' = FALSE
    /\ UNCHANGED << main_vars, pc, fs, terminated, Sprint, sprint_terminated,
                    waited, moves, raised, failure >>

\* The engine leaves its UI helper behind.
Sprint_starts ==
    /\ fine = "alive"
    /\ Sprint # "running"
    /\ Sprint' = "running"
    /\ sprint_terminated' = FALSE
    /\ UNCHANGED << main_vars, pc, fs, fine, exit_status, locked, terminated,
                    waited, moves, raised, failure >>

\* The helper exits after it was told to.
Sprint_exits ==
    /\ Sprint = "running"
    /\ sprint_terminated
    /\ Sprint' = "exited"
    /\ UNCHANGED << main_vars, pc, fs, fine, exit_status, locked, terminated,
                    sprint_terminated, waited, moves, raised, failure >>

(***************************************************************************)
(* Specifications                                                          *)
(***************************************************************************)
\* The steps of the program itself.
Program ==
    \/ NotAFile
    \/ SkipConverted
    \/ SkipExisting
    \/ ForceConvert
    \/ AnalyzeAndDecide
    \/ AnalyzeOnly
    \/ MainReturn
    \/ pdf_to_multipage_tiff
    \/ Popen
    \/ exists
    \/ await_poll
    \/ rename
    \/ rename_poll
    \/ terminate
    \/ wait_return
    \/ wait_tick
    \/ wait_timeout
    \/ Popen__exit__
    \/ process_iter
    \/ p_terminate
    \/ p_wait_return
    \/ p_wait_tick
    \/ p_wait_timeout
    \/ Created
    \/ copy_creation_time

\* The steps of the two external processes.
Environment ==
    \/ fine_creates_output
    \/ fine_closes_output
    \/ fine_exits
    \/ Sprint_starts
    \/ Sprint_exits

Next == Program \/ Environment

Spec == Init /\ [][Next]_vars

\* The program is a sequential process that always takes its next step
\* (sleeps and timed waits end); nothing is assumed of the engine or helper.
FairSpec == Spec /\ WF_vars(Program)

\* After the first run has ended with an error the program is run once
\* more on the same files, without --force: main starts over on the files
\* as the first run left them; a helper the first run left behind is still
\* there.
Rerun ==
    /\ pc = "exit" /\ exit_code = 1 /\ prior = NoPrior
    /\ prior' = [failure |-> failure, idx |-> idx]
    /\ ARGS' = [ARGS EXCEPT !.force = FALSE]
    /\ idx' = 1
    /\ pc' = "main"
    /\ fine' = "none"
    /\ exit_status' = None
    /\ locked' = FALSE
    /\ terminated' = FALSE
    /\ sprint_terminated' = FALSE
    /\ waited' = 0
    /\ moves' = 0
    /\ raised' = "none"
    /\ failure' = ""
    /\ exit_code' = None
    /\ outcome' = [i \in 1..Len(infiles) |-> ""]
    /\ analyzed' = {}
    /\ pdf_type' = EmptyPdfType
    /\ tiff_frames' = 0
    /\ UNCHANGED << infiles, fs, Sprint >>

RerunNext == Next \/ Rerun

RerunSpec == Init /\ [][RerunNext]_vars

\* The classifier runs: analyze mode on one document, over the thresholds.
ClassifyInit ==
    /\ ARGS \in [analyze : {TRUE}, force : {FALSE}, unsearchable : {0},
                 pages : 0..MaxSample, text : TextPercents,
                 image : ImagePercents, words : 0..MaxWords]
    /\ \E document \in UNION { [1..n -> ClassifyPages] : n \in 0..MaxDocPages } :
         infiles = << InputFile(Name(<< "report" >>, ".pdf"), FALSE, document) >>
    /\ Start

ClassifyNext == AnalyzeOnly \/ MainReturn

ClassifySpec == ClassifyInit /\ [][ClassifyNext]_vars

(***************************************************************************)
(* Properties                                                              *)
(***************************************************************************)
\* C1: in every Failed end state (the run has ended after a failure of the
\* job) the temporary output artifact does not exist.
C1_FailedWithoutTemp ==
    (pc = "exit" /\ failure # "") => temp_pdf(idx) \notin fs

\* C2 as stated: a job whose move succeeded after at least one attempt that
\* failed while the engine was alive reaches Done, so it is never Failed.
C2_ContendedMoveEndsDone ==
    (moves >= 2 /\ ocr_pdf(idx) \in fs) => Job # "Failed"

\* C2, amended: after a failed attempt with the engine alive the next step is
\* another attempt; an attempt made once the lock has cleared succeeds; and
\* from there the job reaches Done unless the engine or the helper fails to
\* exit within the terminate timeout.
C2_RetryUntilLockClears ==
    /\ [][(pc = "rename_poll" /\ fine = "alive" /\ pc' # pc)
            => pc' = "rename"]_vars
    /\ [][(pc = "rename" /\ ~locked /\ pc' # pc)
            => (pc' = "terminate" /\ ocr_pdf(idx) \in fs'
                /\ temp_pdf(idx) \notin fs')]_vars
    /\ (pc = "rename" /\ ~locked)
         ~> (Job = "Done" \/ failure \in {"FineCmdTimeout", "SprintTimeout"})

\* The move succeeded at the third attempt or later and the job is Done.
C2_Witness == Job = "Done" /\ moves >= 2 /\ exit_status = 1

\* The poll tick of C3: no temporary output and the engine has exited.
DeadWithoutOutput ==
    Job = "AwaitingOutput" /\ fine = "exited" /\ temp_pdf(idx) \notin fs

\* C3: from a tick of AwaitingOutput with no temporary output and an exited
\* engine (any status) the only way on is to Failed, with no move attempted
\* and no temporary output; that stays so; and Failed is reached.
C3_ExitedBeforeOutput ==
    /\ [][DeadWithoutOutput
            => \/ DeadWithoutOutput'
               \/ (Job' = "Failed" /\ moves' = 0
                   /\ temp_pdf(idx) \notin fs')]_vars
    /\ [][(Job = "Failed" /\ moves = 0 /\ temp_pdf(idx) \notin fs)
            => (Job' = "Failed" /\ moves' = 0 /\ idx' = idx
                /\ temp_pdf(idx) \notin fs')]_vars
    /\ DeadWithoutOutput ~> (Job = "Failed")

\* The run has ended after the engine exited with status 0 without output.
C3_Witness ==
    /\ pc = "exit" /\ failure = "exited" /\ exit_status = 0
    /\ moves = 0 /\ temp_pdf(idx) \notin fs

\* C4 as stated: every started job reaches Done or Failed, whatever the
\* engine does.
C4_AlwaysTerminates == (pc = "Popen") ~> (Job \in {"Done", "Failed"})

\* The engine does not stay alive for ever without output, nor alive for
\* ever with the output locked.
EngineProgresses ==
    /\ []<>~(Job = "AwaitingOutput" /\ fine = "alive"
             /\ temp_pdf(idx) \notin fs)
    /\ []<>~(Job = "InstallingOutput" /\ fine = "alive" /\ locked)

\* C4, amended: every started job reaches Done or Failed provided the engine
\* eventually creates the output or exits, and eventually releases the output
\* or exits.
C4_TerminatesIfEngineProgresses ==
    EngineProgresses => ((pc = "Popen") ~> (Job \in {"Done", "Failed"}))

\* A job is Done at its first move attempt with no helper around.
C4_Witness == Job = "Done" /\ moves = 1 /\ Sprint = "none"

\* C5: the wait for the engine lasts at most the timeout; after the timeout
\* the job is Failed, the run has ended or the program can take its next step
\* (it is not blocked on the engine), and neither the helper scan nor Done
\* nor Created is reached.
C5_TimeoutHalts ==
    /\ pc = "wait" => waited <= TIMEOUT
    /\ failure = "FineCmdTimeout"
         => /\ pc = "exit" \/ ENABLED Program
            /\ pc \in {"Popen__exit__", "exit"}
            /\ outcome[idx] = ""

\* C6: once the job is Failed no input file is classified, rasterized,
\* converted or reported any more, and the run ends with exit code 1.
C6_FailureHaltsBatch ==
    /\ [][Job = "Failed"
            => (Job' = "Failed" /\ idx' = idx /\ analyzed' = analyzed
                /\ outcome' = outcome
                /\ pc' \in {"Popen__exit__", "exit"})]_vars
    /\ (Job = "Failed") ~> (pc = "exit" /\ exit_code = 1)

\* C7: in Done the temporary output is gone, the final output exists, the
\* engine has exited and was sent terminate; terminate is sent only with the
\* final output in place.
C7_DonePostcondition ==
    /\ Job = "Done"
         => /\ temp_pdf(idx) \notin fs
            /\ ocr_pdf(idx) \in fs
            /\ fine = "exited"
            /\ terminated
    /\ terminated => ocr_pdf(idx) \in fs

\* Done after the helper was terminated too.
C7_Witness == Job = "Done" /\ Sprint = "exited" /\ sprint_terminated

\* C8: the helper is scanned for, terminated and waited on only after the
\* engine has exited; the wait follows a terminate and lasts at most the
\* timeout; Done is reached without failure; and a helper timeout fails the
\* job through fatal_error, i.e. by SystemExit as for the engine.
C8_HelperHandling ==
    /\ pc \in {"process_iter", "p_terminate", "p_wait"} => fine = "exited"
    /\ pc = "p_wait" => (sprint_terminated /\ waited <= TIMEOUT)
    /\ Job = "Done" => (failure = "" /\ raised = "none")
    /\ failure = "SprintTimeout" => raised = "SystemExit"

\* C9: InstallingOutput is left for Failed only from the poll that follows a
\* failed attempt, with the engine exited; with the engine alive that poll
\* leads to another attempt; an attempt that succeeds with the engine exited
\* leads to Terminating.
C9_ContentionNotSurfaced ==
    /\ [][(Job = "InstallingOutput" /\ Job' = "Failed")
            => (pc = "rename_poll" /\ fine = "exited")]_vars
    /\ [][(pc = "rename_poll" /\ fine = "alive" /\ pc' # pc)
            => (pc' = "rename" /\ Job' = "InstallingOutput")]_vars
    /\ [][(pc = "rename" /\ fine = "exited" /\ ~RenameFails /\ pc' # pc)
            => (pc' = "terminate" /\ Job' = "Terminating")]_vars

\* A move failed with the engine alive, was retried, and succeeded after the
\* engine had exited.
C9_Witness == pc = "terminate" /\ moves = 2 /\ fine = "exited"

\* The verdict of a document: the labels of its first ARGS.pages pages.
Verdict(document) ==
    [n \in 1..Min(ARGS.pages, Len(document)) |-> PageLabel(document[n], ARGS)]

\* The number of sampled pages of a document with a label.
LabelCount(document, label) ==
    Cardinality({ n \in DOMAIN Verdict(document) : Verdict(document)[n] = label })

\* "Needs conversion" as the design states it.
NeedsConversion(document) ==
    \/ LabelCount(document, "Searchable") = 0
    \/ LabelCount(document, "Unsearchable") > ARGS.unsearchable

\* main has passed its decision for input file i.
Decided(i) == i < idx \/ (i = idx /\ pc # "main")

\* Input file i went on to conversion.
Converted(i) ==
    Decided(i)
    /\ outcome[i] \notin {"NotYielded", "SkippedConverted", "SkippedExisting",
                         "SkippedSearchable"}

\* C10: in conversion mode a file skipped neither for its name nor for an
\* existing output is converted iff --force is set or its document needs conversion; with
\* --force analyze_pdf is never called.
C10_ConversionDecision ==
    ~ARGS.analyze =>
      /\ \A i \in 1..Len(infiles) :
           (Decided(i)
            /\ outcome[i] \notin {"NotYielded", "SkippedConverted", "SkippedExisting"})
             => (Converted(i) <=> (ARGS.force \/ NeedsConversion(infiles[i].document)))
      /\ ARGS.force => analyzed = {}

\* Without --force one file was skipped as searchable and another, with no
\* Searchable and no Unsearchable page, was converted.
C10_Witness ==
    /\ ~ARGS.force
    /\ \E i, j \in 1..Len(infiles) :
         /\ outcome[i] = "SkippedSearchable"
         /\ outcome[j] = "Created"
         /\ infiles[j].document = << >>

(***************************************************************************)
(* Properties of the classifier                                            *)
(***************************************************************************)
\* The page numbers a list of pdf_type holds.
Listed(label) == { pdf_type[label][k] : k \in DOMAIN pdf_type[label] }

\* The labels pdf_type gives page n.
LabelsOf(n) == { label \in DOMAIN pdf_type : n \in Listed(label) }

\* The pages of the document that was analyzed last, and the sampled ones.
AnalyzedDocument == infiles[idx - 1].document
Sampled == 1..Min(ARGS.pages, Len(AnalyzedDocument))

RECURSIVE AreaSum(_, _)
\* The sum of the areas of the blocks with index in S.
AreaSum(blocks, S) ==
    IF S = {} THEN 0
    ELSE LET k == CHOOSE k \in S : TRUE
         IN blocks[k].area + AreaSum(blocks, S \ {k})

\* textArea: the text blocks the inspector counts; imageArea: the image
\* blocks.  Blocks of any other type are in neither.
TextArea(page) ==
    AreaSum(page.blocks, { k \in DOMAIN page.blocks :
        page.blocks[k].type = 0 /\ BlockCounts(page.blocks[k], ARGS) })
ImageArea(page) ==
    AreaSum(page.blocks, { k \in DOMAIN page.blocks : page.blocks[k].type = 1 })

\* The rule of the page classifier, ratios as fractions of the page area.
RuleLabel(page) ==
    IF ~page.text /\ page.images = 0 /\ page.drawings = 0 THEN "Blank"
    ELSE IF \/ TextArea(page) * 100 <= ARGS.text * page.area
            \/ ImageArea(page) * 100 > ARGS.image * page.area
         THEN "Unsearchable"
         ELSE "Searchable"

\* C11: every sampled page is in exactly one of the lists Blank, Searchable,
\* Unsearchable, and in the one the rule gives for that page and the
\* thresholds: Blank iff no text, image or drawing, else Unsearchable iff
\* textArea/pageArea*100 <= textPercentMin or imageArea/pageArea*100 >
\* imagePercentMax, else Searchable (unclamped; unknown blocks ignored).
C11_PageClassification ==
    outcome[1] = "Analyzed" =>
      \A n \in Sampled : LabelsOf(n) = { RuleLabel(AnalyzedDocument[n]) }

\* A page whose text area is 120% and image area 110% of the page, with an
\* unknown block of 150%, was labelled Searchable (--image 150).
C11_Witness ==
    /\ outcome[1] = "Analyzed"
    /\ \E n \in Sampled :
         AnalyzedDocument[n] = OverflowPage /\ n \in Listed("Searchable")

\* ARGS with another value of --words.
WithWords(w) == [ARGS EXCEPT !.words = w]

\* C12: for a fixed page and fixed other thresholds, raising minWords (from
\* any accepted value w, 0 included, to the value of the run) never raises
\* the qualifying text area and never turns an Unsearchable page Searchable.
C12_MinWordsMonotone ==
    outcome[1] = "Analyzed" =>
      \A n \in Sampled : \A w \in 0..ARGS.words :
        LET page == AnalyzedDocument[n]
        IN /\ text_area(page.blocks, 1, ARGS) <= text_area(page.blocks, 1, WithWords(w))
           /\ PageLabel(page, WithWords(w)) = "Unsearchable"
                => n \in Listed("Unsearchable")

\* ARGS with another value of --image.
WithImage(i) == [ARGS EXCEPT !.image = i]

\* C13: for a fixed page and fixed other thresholds, a larger imagePercentMax
\* never turns a Searchable page Unsearchable, and a smaller one never turns
\* an Unsearchable page Searchable.
C13_ImageMaxMonotone ==
    outcome[1] = "Analyzed" =>
      \A n \in Sampled : \A i \in ImagePercents :
        LET page == AnalyzedDocument[n]
        IN /\ i >= ARGS.image /\ n \in Listed("Searchable")
                => PageLabel(page, WithImage(i)) = "Searchable"
           /\ i <= ARGS.image /\ n \in Listed("Unsearchable")
                => PageLabel(page, WithImage(i)) = "Unsearchable"

\* A page was labelled Unsearchable for its images alone: a larger
\* imagePercentMax labels the same page Searchable.
C13_Witness ==
    /\ outcome[1] = "Analyzed"
    /\ \E n \in Sampled : \E i \in ImagePercents :
         /\ i > ARGS.image
         /\ n \in Listed("Unsearchable")
         /\ PageLabel(AnalyzedDocument[n], WithImage(i)) = "Searchable"

\* C14: labels are produced exactly for the pages 1..min(maxPages, pageCount),
\* and the pages beyond maxPages change neither the verdict nor the
\* conversion decision: the same document cut after the sampled pages, or
\* with one more page after them, gets the same lists.
C14_PageSampling ==
    outcome[1] = "Analyzed" =>
      /\ UNION { Listed(label) : label \in DOMAIN pdf_type } = Sampled
      /\ \A n \in Sampled : Cardinality(LabelsOf(n)) = 1
      /\ LET sampled == SubSeq(AnalyzedDocument, 1, Min(ARGS.pages, Len(AnalyzedDocument)))
         IN /\ analyze_pdf(sampled, ARGS) = pdf_type
            /\ ARGS.pages <= Len(AnalyzedDocument) =>
                 \A page \in ClassifyPages :
                   LET longer == analyze_pdf(Append(AnalyzedDocument, page), ARGS)
                   IN /\ longer = pdf_type
                      /\ NotSearchable(longer, ARGS) <=> NotSearchable(pdf_type, ARGS)

\* A two-page document was analyzed with maxPages 1: page 1 is Searchable,
\* page 2 would be Unsearchable, and no page is listed Unsearchable.
C14_Witness ==
    /\ outcome[1] = "Analyzed"
    /\ ARGS.pages = 1
    /\ Len(AnalyzedDocument) = 2
    /\ PageLabel(AnalyzedDocument[2], ARGS) = "Unsearchable"
    /\ Listed("Searchable") = {1}
    /\ Listed("Unsearchable") = {}

(***************************************************************************)
(* Properties of the controller                                            *)
(***************************************************************************)
\* The name of input file i ends in _OCR_ followed by .pdf.
EndsInSuffix(i) ==
    /\ infiles[i].name.stem[Len(infiles[i].name.stem)] = "_OCR_"
    /\ infiles[i].name.ext = ".pdf"

\* C15: in conversion mode, with and without --force, a file whose name ends
\* in _OCR_.pdf is skipped for its name once main has passed it: it is never
\* analyzed, main goes on to no rasterization and no engine launch while it
\* is the current file, and the step that handles it changes no file.
C15_ConvertedNameSkip ==
    /\ [](~ARGS.analyze =>
           \A i \in 1..Len(infiles) : EndsInSuffix(i) =>
             /\ i \notin analyzed
             /\ Decided(i) => outcome[i] = "SkippedConverted"
             /\ idx = i => (pc = "main" /\ fine # "alive"))
    /\ [][(~ARGS.analyze /\ idx <= Len(infiles) /\ EndsInSuffix(idx))
            => fs' = fs]_vars

\* With --force, report_OCR_.pdf was skipped for its name after another file
\* had been converted.
C15_Witness ==
    /\ ARGS.force
    /\ \E i, j \in 1..Len(infiles) :
         /\ j < i
         /\ outcome[j] = "Created"
         /\ EndsInSuffix(i) /\ outcome[i] = "SkippedConverted"

\* C16: in conversion mode, when main reaches a file (not one skipped for its
\* name) whose output path exists: without --force the step skips the file
\* and changes no file, and the output is still there afterwards; with
\* --force the output is gone before rasterization and before the launch of
\* the engine, so that the orchestrator starts without the final output.
C16_ExistingOutput ==
    /\ [](~ARGS.analyze =>
           /\ pc \in {"pdf_to_multipage_tiff", "Popen"} => ocr_pdf(idx) \notin fs
           /\ ~ARGS.force =>
                \A i \in 1..Len(infiles) :
                  outcome[i] = "SkippedExisting" => ocr_pdf(i) \in fs)
    /\ [][(/\ ~ARGS.analyze /\ ~ARGS.force
           /\ pc = "main" /\ idx <= Len(infiles)
           /\ pdf_file(idx) \in fs /\ ~EndsInSuffix(idx)
           /\ ocr_pdf(idx) \in fs)
            => (/\ outcome' = [outcome EXCEPT ![idx] = "SkippedExisting"]
                /\ idx' = idx + 1 /\ pc' = "main"
                /\ fs' = fs /\ analyzed' = analyzed)]_vars

\* With --force the engine is about to be launched for a file whose output
\* existed when the run started.
C16_Witness ==
    /\ ARGS.force /\ pc = "Popen"
    /\ infiles[idx].output
    /\ ocr_pdf(idx) \notin fs

\* C17: in conversion mode a document with zero pages gets no frame in the
\* raster file, and main treats it as nothing to convert: while it is the
\* current file main gets no further than the call of the orchestrator (the
\* engine is not launched), and Created is never its outcome.
C17_ZeroPageDocument ==
    ~ARGS.analyze =>
      \A i \in 1..Len(infiles) :
        infiles[i].document = << >> =>
          /\ idx = i => /\ tiff_frames = 0
                        /\ pc \in {"main", "pdf_to_multipage_tiff", "Popen"}
          /\ outcome[i] # "Created"

\* The outcomes main reports for a file.
Outcomes ==
    {"Created", "SkippedConverted", "SkippedExisting", "SkippedSearchable"}

\* The statements of main; every other one is of the orchestrator.
ControllerPcs ==
    {"main", "pdf_to_multipage_tiff", "Popen", "copy_creation_time", "exit"}

\* C18: in conversion mode every file main has passed has one outcome,
\* Created or Skipped, the files after the current one have none, and an
\* outcome once reported never changes; a fatal error leaves the current
\* file without Created or Skipped and no later file is taken up; Created is
\* reported only from Done, with the final output installed; the rasterizer
\* comes first, the orchestrator is entered only from it, the creation-time
\* copy is entered only with the report of Created and is the last step
\* before the next file.
C18_OneOutcomeInOrder ==
    /\ [](~ARGS.analyze =>
           /\ \A i \in 1..Len(infiles) :
                /\ i < idx => outcome[i] \in Outcomes \cup {"NotYielded"}
                /\ i > idx => outcome[i] = ""
                /\ i = idx => (/\ outcome[i] \in {"", "Created"}
                              /\ outcome[i] = "Created" <=> pc = "copy_creation_time")
           /\ failure # "" => (idx <= Len(infiles) /\ outcome[idx] = ""))
    /\ [][~ARGS.analyze =>
           /\ \A i \in 1..Len(infiles) : outcome[i] # "" => outcome'[i] = outcome[i]
           /\ idx' # idx => (idx' = idx + 1 /\ outcome'[idx] # "" /\ failure = "")
           /\ failure # "" => (failure' = failure /\ idx' = idx /\ outcome' = outcome)
           /\ (pc' = "pdf_to_multipage_tiff" /\ pc' # pc) => pc = "main"
           /\ (pc' = "Popen" /\ pc' # pc) => pc = "pdf_to_multipage_tiff"
           /\ (pc \in ControllerPcs /\ pc' \notin ControllerPcs) => pc = "Popen"
           /\ (pc' = "copy_creation_time" /\ pc' # pc)
                => (/\ Job = "Done" /\ ocr_pdf(idx) \in fs
                    /\ outcome[idx] = "" /\ outcome'[idx] = "Created")
           /\ (pc = "copy_creation_time" /\ pc' # pc)
                => (pc' = "main" /\ idx' = idx + 1 /\ outcome[idx] = "Created")]_vars

\* The first file was converted and reported Created; the second ended the
\* run with a fatal error and has neither Created nor Skipped.
C18_Witness ==
    /\ Len(infiles) = 2 /\ idx = 2
    /\ outcome[1] = "Created" /\ outcome[2] = ""
    /\ failure # "" /\ pc = "exit"

\* C19: between two jobs no engine started by the program is alive: main,
\* the rasterizer, the launch and the creation-time copy are reached only
\* with the engine of the previous file exited; an engine comes alive only by
\* the Popen of the current file, and that Popen finds none alive.
C19_SingleSupervisedChild ==
    /\ [](pc \in {"main", "pdf_to_multipage_tiff", "Popen", "copy_creation_time"}
            => fine # "alive")
    /\ [][(fine' = "alive" /\ fine # "alive") => (pc = "Popen" /\ pc' = "exists")]_vars
    /\ [][(pc = "Popen" /\ pc' # pc) => (fine # "alive" /\ fine' = "alive")]_vars

\* The engine of the second file is alive after the first file was converted.
C19_Witness ==
    /\ idx = 2 /\ outcome[1] = "Created"
    /\ fine = "alive" /\ pc \notin ControllerPcs

\* The files that exist when the run starts: the input files and the outputs
\* that exist already.
InitialFiles ==
    { pdf_file(i) : i \in 1..Len(infiles) }
    \cup { ocr_pdf(i) : i \in { j \in 1..Len(infiles) : infiles[j].output } }

\* C20: in conversion mode a file that existed when the run started is gone
\* from its path only if --force is set and it is the _OCR_ output path of an
\* input file (so every other input file is still at its path), and in
\* analyze mode the files are exactly those of the start.
C20_SourcesNeverMutated ==
    /\ \A f \in InitialFiles \ fs :
         /\ ~ARGS.analyze /\ ARGS.force
         /\ \E i \in 1..Len(infiles) : f = ocr_pdf(i)
    /\ ARGS.analyze => fs = InitialFiles

(***************************************************************************)
(* Properties of a run after a failed one                                  *)
(***************************************************************************)
\* The failures raised after the move of line 465 succeeded: in Terminating
\* and in the termination of the helper.
AfterInstall == {"FineCmdTimeout", "SprintTimeout"}

\* C21: a job that failed after the move has its final output at the target
\* path, also once the failure cleanup has run and the run has ended; a later
\* run without --force on the same files finds it there and, if it gets to
\* that input, skips it for its existing output.
C21_OutputKeptAfterLateFailure ==
    /\ failure \in AfterInstall => ocr_pdf(idx) \in fs
    /\ (prior.failure \in AfterInstall /\ ~ARGS.force) =>
         /\ ocr_pdf(prior.idx) \in fs
         /\ Decided(prior.idx) => outcome[prior.idx] = "SkippedExisting"

\* The first run failed in the wait for the helper, after the cleanup handler
\* had run; the second run, without --force, skipped that input for its
\* existing output.
C21_Witness ==
    /\ prior.failure = "SprintTimeout" /\ ~ARGS.force
    /\ outcome[prior.idx] = "SkippedExisting"

=============================================================================
